---- MODULE Spec2Model ----
(***************************************************************************)
(* Model of the aggregation and costing utilities of the energy usage      *)
(* tracker: processCSV, filterDataByTimeRange, getHistoricalRatesForMeter, *)
(* calculateCostsWithHistoricalRates, getCurrentTariffInfo, the year and   *)
(* month comparisons, the window selector of EnergyChart, the ApiConnection*)
(* fetch handler and the upload / fetch session of DailyEnergyUsage.       *)
(*                                                                         *)
(* Number representation.  kWh values are integers in thousandths of a     *)
(* kWh.  Money values are integers in ten-thousandths of the currency unit *)
(* they are expressed in (pence or pounds); a cost, the product of a kWh   *)
(* value and a pounds-per-kWh value, is in 10^-7 pounds.  Instants are     *)
(* integers counting slots since the epoch (UTC), SlotsPerDay slots a day. *)
(***************************************************************************)
EXTENDS Integers, Sequences, FiniteSets, TLC

\* ------------------------------------------------------------------ bounds
MaxRows == 2
MaxDay == 1
SlotsPerDay == 2
MaxPad == 1
DaysPerMonth == 2
MonthsPerYear == 2

\* ------------------------------------------------------- generic helpers
SeqUpTo(S, n) == UNION {[1..k -> S] : k \in 0..n}

Range(s) == {s[i] : i \in 1..Len(s)}

Abs(x) == IF x < 0 THEN -x ELSE x

RECURSIVE SumSeq(_)
SumSeq(s) == IF s = <<>> THEN 0 ELSE Head(s) + SumSeq(Tail(s))

RECURSIVE SumSet(_, _)
\* sum of f[i] over the finite index set S
SumSet(S, f) ==
  IF S = {} THEN 0
  ELSE LET i == CHOOSE x \in S : TRUE IN f[i] + SumSet(S \ {i}, f)

\* ------------------------------------------------ strings, dates, numbers
\* A timestamp string without surrounding whitespace.
\*   kind "ts"    : full timestamp with explicit UTC zone, day/slot
\*   kind "day"   : "YYYY-MM-DD"
\*   kind "bad"   : non-empty text that Date cannot parse
\*   kind "empty" : the empty string
Ts(d, s) == [kind |-> "ts", day |-> d, slot |-> s]
DayLabel(d) == [kind |-> "day", day |-> d, slot |-> 0]
Bad == [kind |-> "bad", day |-> 0, slot |-> 0]
Empty == [kind |-> "empty", day |-> 0, slot |-> 0]

Days == 0..MaxDay
Slots == 0..(SlotsPerDay - 1)
TsLabels == {Ts(d, s) : d \in Days, s \in Slots}
Labels == TsLabels \cup {Bad}

\* A CSV cell holding a string: pad leading blanks, then core.
Str(p, l) == [def |-> TRUE, pad |-> p, core |-> l]
\* A field the row does not have (undefined).
Undefined == [def |-> FALSE, pad |-> 0, core |-> Empty]

\* A number cell that is absent (undefined / null).
Absent == -1

\* The time value of an Invalid Date.
NaN == -999999

\* String.prototype.trim behind the optional chain ?.
Trim(cell) == IF cell.def THEN [cell EXCEPT !.pad = 0] ELSE cell

\* JS truthiness of a (possibly undefined) string: defined and non-empty.
Truthy(cell) == cell.def /\ ~(cell.pad = 0 /\ cell.core.kind = "empty")

\* JS truthiness of a (possibly absent) number.
NumTruthy(n) == n # Absent /\ n # 0

\* new Date(label).getTime()
GetTime(l) ==
  CASE l.kind = "ts" -> l.day * SlotsPerDay + l.slot
    [] l.kind = "day" -> l.day * SlotsPerDay
    [] OTHER -> NaN

\* date.toISOString().split("T")[0] of a valid instant
ISODayNext(t) == DayLabel((t \div SlotsPerDay) + 1)
ISODay(t) == DayLabel(t \div SlotsPerDay)

\* Local calendar components of an instant under timezone offset tz (slots).
LocalDay(t, tz) == (t + tz) \div SlotsPerDay
GetFullYear(t, tz) == LocalDay(t, tz) \div (DaysPerMonth * MonthsPerYear)
GetMonth(t, tz) == (LocalDay(t, tz) \div DaysPerMonth) % MonthsPerYear
GetDate(t, tz) == (LocalDay(t, tz) % DaysPerMonth) + 1

\* Math.round(value * 100) / 100 on thousandths (round half up).
Round2(v) == ((v + 5) \div 10) * 10

\* ------------------------------------------------------------- processCSV
StartHeaders == {"Start", " Start"}
ConsHeaders == {"Consumption (kwh)", "Consumption (kWh)"}
ConsValues == {Absent, 4, 15}
StartCells ==
  {Undefined} \cup {Str(p, Empty) : p \in 0..MaxPad}
              \cup {Str(p, l) : p \in 0..MaxPad, l \in Labels}
CsvRows == [start : StartCells, cons : ConsValues]
\* longer files of plain rows: unpadded timestamps, among them a date-only
\* label that parses to the instant of a full timestamp, one consumption value
MaxLongRows == 3
LongLabels == Labels \cup {DayLabel(0)}
LongRows == [start : {Str(0, l) : l \in LongLabels}, cons : {15}]
LongFiles == [startHdr : {"Start"}, consHdr : {"Consumption (kwh)"},
              rows : [1..MaxLongRows -> LongRows]]
CsvFiles == [startHdr : StartHeaders, consHdr : ConsHeaders,
             rows : SeqUpTo(CsvRows, MaxRows)] \cup LongFiles
NoFile == [startHdr |-> "Start", consHdr |-> "Consumption (kwh)", rows |-> <<>>]

\* row[name] for the start column and for the consumption column
StartField(file, row, name) ==
  IF file.startHdr = name THEN row.start ELSE Undefined
ConsField(file, row, name) ==
  IF file.consHdr = name THEN row.cons ELSE Absent

\* row["Start"]?.trim() || row[" Start"]?.trim()
StartDate(file, row) ==
  LET a == Trim(StartField(file, row, "Start"))
      b == Trim(StartField(file, row, " Start"))
  IN IF Truthy(a) THEN a ELSE b

\* if (!startDate) return;
DroppedNever(startDate) == FALSE
Dropped(startDate) == ~Truthy(startDate)

\* const date = startDate;
DateKeyByDay(startDate) ==
  IF startDate.core.kind = "ts" THEN DayLabel(startDate.core.day)
  ELSE startDate.core
DateKey(startDate) == startDate.core

\* row["Consumption (kwh)"] || row["Consumption (kWh)"] || 0
Consumption(file, row) ==
  LET a == ConsField(file, row, "Consumption (kwh)")
      b == ConsField(file, row, "Consumption (kWh)")
  IN IF NumTruthy(a) THEN a ELSE IF NumTruthy(b) THEN b ELSE 0

\* if (obj[key]) obj[key] += v; else obj[key] = v;   on an object whose
\* entries are kept in insertion order
AddToOverwrite(acc, key, v) ==
  IF \E i \in 1..Len(acc) : acc[i].date = key
  THEN [i \in 1..Len(acc) |->
          IF acc[i].date = key THEN [date |-> key, value |-> v] ELSE acc[i]]
  ELSE Append(acc, [date |-> key, value |-> v])
AddTo(acc, key, v) ==
  IF \E i \in 1..Len(acc) : acc[i].date = key
  THEN [i \in 1..Len(acc) |->
          IF acc[i].date = key
          THEN [date |-> key,
                value |-> IF acc[i].value # 0 THEN acc[i].value + v ELSE v]
          ELSE acc[i]]
  ELSE Append(acc, [date |-> key, value |-> v])

RECURSIVE GroupRows(_, _, _)
\* results.data.forEach(...) building dailyData
GroupRows(file, rows, acc) ==
  IF rows = <<>> THEN acc
  ELSE LET row == Head(rows)
           startDate == StartDate(file, row)
       IN IF Dropped(startDate)
          THEN GroupRows(file, Tail(rows), acc)
          ELSE GroupRows(file, Tail(rows),
                         AddTo(acc, DateKey(startDate), Consumption(file, row)))

\* .map(([date, value]) => ({date, value: Math.round(value * 100) / 100}))
RoundEntries(s) ==
  [i \in 1..Len(s) |-> [date |-> s[i].date, value |-> Round2(s[i].value)]]

\* (a, b) => new Date(a.date).getTime() - new Date(b.date).getTime(),
\* a NaN result counting as 0
CompareByDate(a, b) ==
  LET ta == GetTime(a.date)
      tb == GetTime(b.date)
  IN IF ta = NaN \/ tb = NaN THEN 0
     ELSE IF ta < tb THEN -1 ELSE IF ta > tb THEN 1 ELSE 0

\* The comparator is a consistent ordering of s: "compares equal" is
\* transitive (an Invalid Date compares equal to everything).
ConsistentByDate(s) ==
  \A i, j, k \in 1..Len(s) :
     (CompareByDate(s[i], s[j]) = 0 /\ CompareByDate(s[j], s[k]) = 0)
        => CompareByDate(s[i], s[k]) = 0

RECURSIVE InsertByDate(_, _)
\* insert e after every element that does not compare greater (stable)
InsertByDate(sorted, e) ==
  IF sorted = <<>> THEN <<e>>
  ELSE IF CompareByDate(Head(sorted), e) <= 0
       THEN <<Head(sorted)>> \o InsertByDate(Tail(sorted), e)
       ELSE <<e>> \o sorted

RECURSIVE StableSortByDate(_)
StableSortByDate(s) ==
  IF s = <<>> THEN <<>>
  ELSE InsertByDate(StableSortByDate(SubSeq(s, 1, Len(s) - 1)), s[Len(s)])

Reorderings(s) ==
  {p \in [1..Len(s) -> Range(s)] : \A i \in 1..Len(s) : \E j \in 1..Len(s) : p[j] = s[i]}

\* Array.prototype.sort with the date comparator: stable when the
\* comparator is consistent, otherwise an implementation-defined order.
SortByDateOutcomes(s) ==
  IF ConsistentByDate(s) THEN {StableSortByDate(s)} ELSE Reorderings(s)

\* the set of values processCSV can resolve with
ProcessCSVOutcomes(file) ==
  SortByDateOutcomes(RoundEntries(GroupRows(file, file.rows, <<>>)))

\* -------------------------------------------------- filterDataByTimeRange
TimeRanges == {"daily", "7d", "30d", "90d", "year", "all"}
WindowDays == {7, 30, 90, 365}
TzOffsets == {-1, 0, 1}
\* the instants at which a filter call may run: just after each window
\* length has elapsed since the first modelled slot
NowSet == {n * SlotsPerDay + 1 : n \in WindowDays}
SelectedDates == {Undefined} \cup {Str(0, DayLabel(d)) : d \in Days}

\* daysToShow[timeRange]; 0 stands for undefined
DaysToShow(timeRange) ==
  CASE timeRange = "7d" -> 7
    [] timeRange = "30d" -> 30
    [] timeRange = "90d" -> 90
    [] timeRange = "year" -> 365
    [] OTHER -> 0

\* the predicate of the daily view: component-wise local date equality
SameLocalDate(pointLabel, targetLabel, tz) ==
  LET p == GetTime(pointLabel)
      t == GetTime(targetLabel)
  IN /\ p # NaN
     /\ t # NaN
     /\ GetFullYear(p, tz) = GetFullYear(t, tz)
     /\ GetMonth(p, tz) = GetMonth(t, tz)
     /\ GetDate(p, tz) = GetDate(t, tz)

\* pointDate >= cutoffDate, false for an Invalid Date
AtOrAfterStrict(pointLabel, cutoff) ==
  LET p == GetTime(pointLabel) IN p # NaN /\ p > cutoff
AtOrAfter(pointLabel, cutoff) ==
  LET p == GetTime(pointLabel) IN p # NaN /\ p >= cutoff

RECURSIVE AggregateByDay(_, _)
\* filteredData.forEach(...) building dailyAggregated; toISOString throws
\* a RangeError on an Invalid Date
AggregateByDay(points, acc) ==
  IF points = <<>> THEN [threw |-> FALSE, out |-> acc]
  ELSE LET t == GetTime(Head(points).date)
       IN IF t = NaN
          THEN [threw |-> TRUE, out |-> <<>>]
          ELSE AggregateByDay(Tail(points),
                              AddTo(acc, ISODay(t), Head(points).value))

FilterDataByTimeRange(data, timeRange, selectedDate, now, tz) ==
  IF Len(data) = 0 THEN [threw |-> FALSE, out |-> data]
  ELSE IF timeRange = "daily" /\ Truthy(selectedDate)
  THEN [threw |-> FALSE,
        out |-> SelectSeq(data,
                  LAMBDA point : SameLocalDate(point.date, selectedDate.core, tz))]
  ELSE LET days == DaysToShow(timeRange)
           cutoffDate == now - days * SlotsPerDay
           filteredData ==
             IF timeRange # "all" /\ days # 0
             THEN SelectSeq(data, LAMBDA point : AtOrAfter(point.date, cutoffDate))
             ELSE data
           agg == AggregateByDay(filteredData, <<>>)
       IN IF agg.threw THEN agg
          ELSE [threw |-> FALSE,
                out |-> StableSortByDate(RoundEntries(agg.out))]

\* Object identity of what a call returns.  The caller's array is the object
\* "data" and its i-th element the object i; an array the call constructs is
\* "fresh" and an element it constructs is the object 0.
FilterDataRefs(data, timeRange, selectedDate, tz, result) ==
  IF result.threw THEN [array |-> "fresh", elems |-> <<>>]
  ELSE IF Len(data) = 0 THEN [array |-> "data", elems |-> <<>>]
  ELSE IF timeRange = "daily" /\ Truthy(selectedDate)
  THEN [array |-> "fresh",
        elems |-> SelectSeq([i \in 1..Len(data) |-> i],
                    LAMBDA i : SameLocalDate(data[i].date, selectedDate.core, tz))]
  ELSE [array |-> "fresh", elems |-> [i \in 1..Len(result.out) |-> 0]]

\* ------------------------------------------------- tariff rate lookup
MaxApiTime == 2
MaxAgreements == 2
MaxRates == 2
MaxPoints == 2

\* a null / absent string of an API object
Null == [kind |-> "null", day |-> 0, slot |-> 0]

\* truthiness of an API string field
StrTruthy(l) == l.kind # "null" /\ l.kind # "empty"

\* new Date("2099-12-31"), the stand-in for an absent valid_to
FarFutureDay == 47481
FarFuture == DayLabel(FarFutureDay)

\* the ISO timestamp of slot t
TimeLabel(t) == Ts(t \div SlotsPerDay, t % SlotsPerDay)
ApiTimes == 0..MaxApiTime

TariffCodes == {"A", "B"}
\* unit rate (pence) and daily standing charge (pence) published for a code
RateValueOf(code) == IF code = "A" THEN 284200 ELSE 150000
StandingChargeOf(code) == IF code = "A" THEN 480000 ELSE 240000

Window(f, t) ==
  [valid_from |-> TimeLabel(f),
   valid_to |-> IF t = Absent THEN Null ELSE TimeLabel(t)]
ValidityWindows ==
  {Window(f, Absent) : f \in ApiTimes}
  \cup UNION {{Window(f, t) : t \in (f + 1)..MaxApiTime} : f \in ApiTimes}

Ag(code, f, t) ==
  [tariff_code |-> code, valid_from |-> Window(f, t).valid_from,
   valid_to |-> Window(f, t).valid_to]
Agreements ==
  {[tariff_code |-> c, valid_from |-> w.valid_from, valid_to |-> w.valid_to] :
     c \in TariffCodes, w \in ValidityWindows}

ElecPoint(id, ags) == [mpan |-> id, mprn |-> "", agreements |-> ags]
GasPoint(id, ags) == [mpan |-> "", mprn |-> id, agreements |-> ags]

\* account details: two properties; the first holds electricity meter M1
\* with the agreements ags and gas meter G1, the second electricity meter M2
Account(ags) ==
  << [electricity_meter_points |-> <<ElecPoint("M1", ags)>>,
      gas_meter_points |-> <<GasPoint("G1", ags)>>],
     [electricity_meter_points |-> <<ElecPoint("M2", <<Ag("B", 0, Absent)>>)>>,
      gas_meter_points |-> <<>>] >>
Accounts == {Account(ags) : ags \in SeqUpTo(Agreements, MaxAgreements)}
CostingAccounts ==
  {Account(ags) : ags \in
     { <<>>,
       <<Ag("A", 0, Absent)>>,
       <<Ag("A", 0, 1), Ag("B", 1, Absent)>>,
       <<Ag("B", 0, Absent), Ag("A", 1, Absent)>>,
       <<Ag("A", 0, 1), Ag("A", 1, Absent)>> }}

ElecMeter(id) == [type |-> "electricity", mpan |-> id, mprn |-> ""]
GasMeter(id) == [type |-> "gas", mpan |-> "", mprn |-> id]
MeterPoints == {ElecMeter("M1"), ElecMeter("M2"), GasMeter("G1")}

RECURSIVE Flatten(_)
Flatten(ss) == IF ss = <<>> THEN <<>> ELSE Head(ss) \o Flatten(Tail(ss))

\* validFrom <= endDate && validTo >= startDate
OverlapsStrict(agreement, startDate, endDate) ==
  LET validFrom == GetTime(agreement.valid_from)
      validTo == IF StrTruthy(agreement.valid_to)
                 THEN GetTime(agreement.valid_to) ELSE GetTime(FarFuture)
  IN validFrom <= endDate /\ validTo > startDate
Overlaps(agreement, startDate, endDate) ==
  LET validFrom == GetTime(agreement.valid_from)
      validTo == IF StrTruthy(agreement.valid_to)
                 THEN GetTime(agreement.valid_to) ELSE GetTime(FarFuture)
  IN validFrom <= endDate /\ validTo >= startDate

\* the meter points of the list the meter's type selects
PointsOfType(property, type) ==
  IF type = "electricity" THEN property.electricity_meter_points
  ELSE IF type = "gas" THEN property.gas_meter_points ELSE <<>>

\* mp.mpan === meterPoint.mpan (electricity), mp.mprn === meterPoint.mprn (gas)
SameMeter(mp, meterPoint) ==
  IF meterPoint.type = "electricity" THEN mp.mpan = meterPoint.mpan
  ELSE mp.mprn = meterPoint.mprn

\* the tariffCodes array built by getHistoricalRatesForMeter
ActiveTariffCodes(account, meterPoint, startDate, endDate) ==
  Flatten([p \in 1..Len(account) |->
    LET mps == PointsOfType(account[p], meterPoint.type)
    IN Flatten([m \in 1..Len(mps) |->
         IF SameMeter(mps[m], meterPoint)
         THEN LET sel == SelectSeq(mps[m].agreements,
                           LAMBDA a : Overlaps(a, startDate, endDate))
              IN [i \in 1..Len(sel) |-> sel[i].tariff_code]
         ELSE <<>>])])

\* Outcome of one fetch: "ok" with results, "notOk" (HTTP error status) or
\* "reject" (the fetch promise rejects).
Ok(results) == [kind |-> "ok", results |-> results]
NotOk == [kind |-> "notOk", results |-> <<>>]
Reject == [kind |-> "reject", results |-> <<>>]

RateEntry(code, w) ==
  [value_inc_vat |-> RateValueOf(code), valid_from |-> w.valid_from,
   valid_to |-> w.valid_to]
\* what the standard-unit-rates endpoint may answer for a code with at most
\* n entries; plain answers hold at most the one open-ended entry and are
\* drawn when only the selection of codes is examined
RateOutcomes(code, n, plain) ==
  {NotOk, Reject} \cup
  (IF plain
   THEN {Ok(<<>>)} \cup
        (IF n > 0 THEN {Ok(<<RateEntry(code, Window(0, Absent))>>)} ELSE {})
   ELSE {Ok(rs) : rs \in SeqUpTo({RateEntry(code, w) : w \in ValidityWindows}, n)})

RECURSIVE ResponseSeqs(_, _, _)
\* One answer per fetched code, at most n entries in total; no fetch is
\* made after one rejected.
ResponseSeqs(codes, n, plain) ==
  IF codes = <<>> THEN {<<>>}
  ELSE UNION {
         IF o.kind = "reject"
         THEN {[i \in 1..Len(codes) |-> Reject]}
         ELSE {<<o>> \o rest :
                 rest \in ResponseSeqs(Tail(codes), n - Len(o.results), plain)}
         : o \in RateOutcomes(Head(codes), n, plain)}

\* getTariffRates: data.results, or [] when !response.ok
GetTariffRates(outcome) == IF outcome.kind = "ok" THEN outcome.results ELSE <<>>

RECURSIVE InsertByValidFrom(_, _)
InsertByValidFrom(sorted, e) ==
  IF sorted = <<>> THEN <<e>>
  ELSE IF GetTime(Head(sorted).valid_from) - GetTime(e.valid_from) <= 0
       THEN <<Head(sorted)>> \o InsertByValidFrom(Tail(sorted), e)
       ELSE <<e>> \o sorted

RECURSIVE SortByValidFrom(_)
\* allRates.sort((a, b) => new Date(a.valid_from) - new Date(b.valid_from))
SortByValidFrom(s) ==
  IF s = <<>> THEN <<>>
  ELSE InsertByValidFrom(SortByValidFrom(SubSeq(s, 1, Len(s) - 1)), s[Len(s)])

\* getHistoricalRatesForMeter, given the outcome of each fetch it makes
GetHistoricalRatesForMeter(account, meterPoint, startDate, endDate, resp) ==
  LET tariffCodes == ActiveTariffCodes(account, meterPoint, startDate, endDate)
  IN IF Len(tariffCodes) = 0
     THEN [threw |-> FALSE, tariffCodes |-> tariffCodes, rates |-> <<>>]
     ELSE IF \E i \in 1..Len(tariffCodes) : resp[i].kind = "reject"
     THEN [threw |-> TRUE, tariffCodes |-> tariffCodes, rates |-> <<>>]
     ELSE [threw |-> FALSE, tariffCodes |-> tariffCodes,
           rates |-> SortByValidFrom(
                       Flatten([i \in 1..Len(tariffCodes) |->
                                  GetTariffRates(resp[i])]))]

\* -------------------------------------------------------------- costing
ConsumptionValues == {10000}
ConsumptionPoint(t, c) ==
  [consumption |-> c, interval_start |-> TimeLabel(t),
   interval_end |-> TimeLabel(t + 1)]
\* what the consumption endpoint returns: distinct intervals, oldest first
ConsumptionSeries ==
  {s \in SeqUpTo({ConsumptionPoint(t, c) : t \in ApiTimes, c \in ConsumptionValues},
                 MaxPoints) :
     \A i, j \in 1..Len(s) :
        i < j => GetTime(s[i].interval_start) < GetTime(s[j].interval_start)}

\* what the standing-charges endpoint may answer for a code
StandingOutcomes(code) ==
  {NotOk, Reject, Ok(<<>>), Ok(<<[value_inc_vat |-> StandingChargeOf(code)]>>)}

\* getStandingCharges: results[0].value_inc_vat, 0 when none or !response.ok
GetStandingCharges(outcome) ==
  IF outcome.kind = "ok" /\ Len(outcome.results) > 0
  THEN outcome.results[1].value_inc_vat ELSE 0

\* the meter the standing-charge scan matches
SameMeterAny(mp, meterPoint) ==
  \/ (meterPoint.mpan # "" /\ mp.mpan = meterPoint.mpan)
  \/ (meterPoint.mprn # "" /\ mp.mprn = meterPoint.mprn)

RECURSIVE Dedup(_, _)
\* if (!tariffCodes.includes(code)) tariffCodes.push(code)
Dedup(codes, acc) ==
  IF codes = <<>> THEN acc
  ELSE IF \E i \in 1..Len(acc) : acc[i] = Head(codes)
       THEN Dedup(Tail(codes), acc)
       ELSE Dedup(Tail(codes), Append(acc, Head(codes)))

\* the tariffCodes array built by calculateCostsWithHistoricalRates
MeterTariffCodes(account, meterPoint) ==
  Dedup(Flatten([p \in 1..Len(account) |->
    LET mps == IF meterPoint.type = "electricity"
               THEN account[p].electricity_meter_points
               ELSE account[p].gas_meter_points
    IN Flatten([m \in 1..Len(mps) |->
         IF SameMeterAny(mps[m], meterPoint)
         THEN [i \in 1..Len(mps[m].agreements) |->
                 mps[m].agreements[i].tariff_code]
         ELSE <<>>])]), <<>>)

\* standingChargePerDay / 100 / 48
StandingChargePer24th(standingChargePerDay) == (standingChargePerDay \div 100) \div 24
StandingChargePer30Min(standingChargePerDay) == (standingChargePerDay \div 100) \div 48

\* pointTime >= rateValidFrom && pointTime < rateValidTo
RateCoversClosed(rate, pointTime) ==
  LET rateValidFrom == GetTime(rate.valid_from)
      rateValidTo == IF StrTruthy(rate.valid_to)
                     THEN GetTime(rate.valid_to) ELSE GetTime(FarFuture)
  IN pointTime >= rateValidFrom /\ pointTime <= rateValidTo
RateCovers(rate, pointTime) ==
  LET rateValidFrom == GetTime(rate.valid_from)
      rateValidTo == IF StrTruthy(rate.valid_to)
                     THEN GetTime(rate.valid_to) ELSE GetTime(FarFuture)
  IN pointTime >= rateValidFrom /\ pointTime < rateValidTo

RECURSIVE FindRate(_, _)
\* rates.find(...): the first covering entry, or <<>> for undefined
FindRate(rates, pointTime) ==
  IF rates = <<>> THEN <<>>
  ELSE IF RateCovers(Head(rates), pointTime) THEN <<Head(rates)>>
       ELSE FindRate(Tail(rates), pointTime)

\* applicableRate ? applicableRate.value_inc_vat : 0
RateValueOrLast(rates, applicableRate) ==
  IF applicableRate # <<>> THEN applicableRate[1].value_inc_vat
  ELSE rates[Len(rates)].value_inc_vat
RateValue(rates, applicableRate) ==
  IF applicableRate # <<>> THEN applicableRate[1].value_inc_vat ELSE 0

\* point.consumption * (rateValue / 100)
UnitCostTenth(consumption, rateValue) == consumption * (rateValue \div 10)
UnitCost(consumption, rateValue) == consumption * (rateValue \div 100)

\* the result when no rate is available
ZeroCostsCopied(consumptionData) ==
  [i \in 1..Len(consumptionData) |->
     [consumption |-> consumptionData[i].consumption,
      interval_start |-> consumptionData[i].interval_start,
      interval_end |-> consumptionData[i].interval_end,
      cost |-> consumptionData[i].consumption, rate |-> 0, standingCharge |-> 0]]
ZeroCosts(consumptionData) ==
  [i \in 1..Len(consumptionData) |->
     [consumption |-> consumptionData[i].consumption,
      interval_start |-> consumptionData[i].interval_start,
      interval_end |-> consumptionData[i].interval_end,
      cost |-> 0, rate |-> 0, standingCharge |-> 0]]

\* the map over consumptionData once rates and the charge are known
CostPoints(consumptionData, rates, standingChargePer30Min) ==
  [i \in 1..Len(consumptionData) |->
     LET point == consumptionData[i]
         pointTime == GetTime(point.interval_start)
         rateValue == RateValue(rates, FindRate(rates, pointTime))
     IN [consumption |-> point.consumption,
         interval_start |-> point.interval_start,
         interval_end |-> point.interval_end,
         cost |-> UnitCost(point.consumption, rateValue),
         rate |-> rateValue,
         standingCharge |-> standingChargePer30Min]]

NoCosts ==
  [threw |-> FALSE, tariffCodes |-> <<>>, rates |-> <<>>, chargeCodes |-> <<>>,
   standingChargePerDay |-> 0, data |-> <<>>]

\* calculateCostsWithHistoricalRates, given the outcome of each rate fetch
\* (resp) and of the standing-charge fetch (sc)
CalculateCostsWithHistoricalRates(account, meterPoint, consumptionData, startDate, endDate, resp, sc) ==
  LET lookup == GetHistoricalRatesForMeter(account, meterPoint, startDate,
                                           endDate, resp)
      rates == lookup.rates
      chargeCodes == MeterTariffCodes(account, meterPoint)
      standingChargePerDay ==
        IF Len(chargeCodes) > 0 THEN GetStandingCharges(sc) ELSE 0
  IN IF lookup.threw
     THEN [NoCosts EXCEPT !.threw = TRUE, !.tariffCodes = lookup.tariffCodes]
     ELSE IF Len(rates) = 0
     THEN [NoCosts EXCEPT !.tariffCodes = lookup.tariffCodes,
                          !.data = ZeroCosts(consumptionData)]
     ELSE IF Len(chargeCodes) > 0 /\ sc.kind = "reject"
     THEN [NoCosts EXCEPT !.threw = TRUE, !.tariffCodes = lookup.tariffCodes,
                          !.rates = rates, !.chargeCodes = chargeCodes]
     ELSE [threw |-> FALSE, tariffCodes |-> lookup.tariffCodes, rates |-> rates,
           chargeCodes |-> chargeCodes,
           standingChargePerDay |-> standingChargePerDay,
           data |-> CostPoints(consumptionData, rates,
                               StandingChargePer30Min(standingChargePerDay))]

\* ------------------------------------------- handleFetchData helpers
\* parseFloat(value.toFixed(3)): a value in thousandths is already exact
Round3(v) == v

RECURSIVE GroupByIsoDay(_, _)
\* consumptionData.forEach(...) of convertConsumptionToAppFormat
GroupByIsoDay(points, acc) ==
  IF points = <<>> THEN acc
  ELSE LET dateKey == ISODay(GetTime(Head(points).interval_start))
           zeroed == IF \E i \in 1..Len(acc) : acc[i].date = dateKey
                     THEN acc ELSE Append(acc, [date |-> dateKey, value |-> 0])
       IN GroupByIsoDay(Tail(points),
            [i \in 1..Len(zeroed) |->
               IF zeroed[i].date = dateKey
               THEN [date |-> dateKey,
                     value |-> zeroed[i].value + Head(points).consumption]
               ELSE zeroed[i]])

\* convertConsumptionToAppFormat: daily sums, sorted by date string
ConvertConsumptionToAppFormat(consumptionData) ==
  LET grouped == GroupByIsoDay(consumptionData, <<>>)
  IN StableSortByDate([i \in 1..Len(grouped) |->
       [date |-> grouped[i].date, value |-> Round3(grouped[i].value)]])

\* totalCost + totalStandingCharge of the handler, in 10^-7 pounds (a
\* standing-charge share is held in 10^-4 pounds)
TotalCostWithStanding(dataWithCosts) ==
  SumSeq([i \in 1..Len(dataWithCosts) |-> dataWithCosts[i].cost])
  + 1000 * SumSeq([i \in 1..Len(dataWithCosts) |-> dataWithCosts[i].standingCharge])

\* ------------------------------------------- year and month comparison
MaxCmpDay == 5
MaxCmpLen == 2
MaxYear == 2

CompareValues == {1004, 15}
\* the series a comparison is computed from: daily labels, some unparseable
CompareSeries ==
  SeqUpTo([date : {DayLabel(d) : d \in 0..MaxCmpDay} \cup {Bad},
           value : CompareValues], MaxCmpLen)
\* comparisonYears: toggled years, each at most once, in toggle order
YearLists ==
  {ys \in SeqUpTo(0..MaxYear, MaxYear + 1) :
     \A i, j \in 1..Len(ys) : ys[i] = ys[j] => i = j}
Months == 1..MonthsPerYear

\* new Date(point.date).getFullYear(), NaN for an Invalid Date
YearOf(label, tz) ==
  IF GetTime(label) = NaN THEN NaN ELSE GetFullYear(GetTime(label), tz)

\* String(n) as its sequence of decimal digits, and Number(...) of it
Digits(n) == IF n < 10 THEN <<n>> ELSE <<n \div 10, n % 10>>
NumberOf(ds) == IF Len(ds) = 1 THEN ds[1] ELSE ds[1] * 10 + ds[2]

\* String(n).padStart(2, "0")
PadStart2(n) == IF Len(Digits(n)) < 2 THEN <<0>> \o Digits(n) ELSE Digits(n)

\* `${MM}-${DD}` of a valid instant: the digits of the month and of the day
\* (the dash, the same in every key, is left out)
DayMonthKey(t, tz) == PadStart2(GetDate(t, tz)) \o PadStart2(GetMonth(t, tz) + 1)
MonthDayKey(t, tz) == PadStart2(GetMonth(t, tz) + 1) \o PadStart2(GetDate(t, tz))

RECURSIVE LexLess(_, _)
\* string comparison of the default sort
LexLess(a, b) ==
  IF a = <<>> THEN b # <<>>
  ELSE IF b = <<>> THEN FALSE
  ELSE IF Head(a) # Head(b) THEN Head(a) < Head(b)
  ELSE LexLess(Tail(a), Tail(b))

RECURSIVE SortStrings(_)
\* Array.from(set).sort()
SortStrings(S) ==
  IF S = {} THEN <<>>
  ELSE LET m == CHOOSE x \in S : \A y \in S \ {x} : LexLess(x, y)
       IN <<m>> \o SortStrings(S \ {m})

RECURSIVE SortNumbers(_)
\* Array.from(set).sort((a, b) => a - b)
SortNumbers(S) ==
  IF S = {} THEN <<>>
  ELSE LET m == CHOOSE x \in S : \A y \in S : x <= y
       IN <<m>> \o SortNumbers(S \ {m})

\* obj[key] of an accumulated object; 0 stands for undefined
Lookup(acc, key) ==
  IF \E i \in 1..Len(acc) : acc[i].date = key
  THEN acc[CHOOSE i \in 1..Len(acc) : acc[i].date = key].value
  ELSE 0

Keys(acc) == {acc[i].date : i \in 1..Len(acc)}

RECURSIVE YearData(_, _, _, _)
\* yearData[year] after data.forEach of compareYears
YearData(data, year, tz, acc) ==
  IF data = <<>> THEN acc
  ELSE LET point == Head(data)
       IN IF YearOf(point.date, tz) = year
          THEN YearData(Tail(data), year, tz,
                 AddTo(acc, MonthDayKey(GetTime(point.date), tz), point.value))
          ELSE YearData(Tail(data), year, tz, acc)

\* yearData[year][key] ? Math.round(v * 100) / 100 : 0
Cell(acc, key) == IF Lookup(acc, key) # 0 THEN Round2(Lookup(acc, key)) ELSE 0

\* compareYears(data, years) under timezone offset tz
CompareYears(data, years, tz) ==
  IF Len(years) = 0 THEN <<>>
  ELSE LET yearData == [y \in Range(years) |-> YearData(data, y, tz, <<>>)]
           allDays == UNION {Keys(yearData[y]) : y \in Range(years)}
           axis == SortStrings(allDays)
       IN [i \in 1..Len(axis) |->
             [date |-> axis[i],
              cells |-> [y \in Range(years) |-> Cell(yearData[y], axis[i])]]]

\* date.getMonth() + 1
PointMonthZeroBased(t, tz) == GetMonth(t, tz)
PointMonth(t, tz) == GetMonth(t, tz) + 1

RECURSIVE MonthData(_, _, _, _, _)
\* monthData[year] after data.forEach of compareMonths; the day number is
\* the property key String(day)
MonthData(data, month, year, tz, acc) ==
  IF data = <<>> THEN acc
  ELSE LET point == Head(data)
       IN IF YearOf(point.date, tz) = year
             /\ PointMonth(GetTime(point.date), tz) = month
          THEN MonthData(Tail(data), month, year, tz,
                 AddTo(acc, Digits(GetDate(GetTime(point.date), tz)), point.value))
          ELSE MonthData(Tail(data), month, year, tz, acc)

\* compareMonths(data, month, years) under timezone offset tz
CompareMonths(data, month, years, tz) ==
  IF Len(years) = 0 THEN <<>>
  ELSE LET monthData == [y \in Range(years) |-> MonthData(data, month, y, tz, <<>>)]
           allDays == UNION {{NumberOf(k) : k \in Keys(monthData[y])} : y \in Range(years)}
           axis == SortNumbers(allDays)
       IN [i \in 1..Len(axis) |->
             [date |-> Digits(axis[i]),
              cells |-> [y \in Range(years) |->
                           Cell(monthData[y], Digits(axis[i]))]]]

RECURSIVE YearTotal(_, _, _, _)
\* totals[year] after data.forEach of calculateYearTotals
YearTotalAnyYear(data, year, tz, total) ==
  SumSeq([i \in 1..Len(data) |-> data[i].value])
YearTotal(data, year, tz, total) ==
  IF data = <<>> THEN total
  ELSE YearTotal(Tail(data), year, tz,
         IF YearOf(Head(data).date, tz) = year
         THEN total + Head(data).value ELSE total)

\* calculateYearTotals(data, years) under timezone offset tz
CalculateYearTotals(data, years, tz) ==
  [y \in Range(years) |-> Round2(YearTotal(data, y, tz, 0))]

\* the totals a percentage change is computed from (thousandths of a kWh)
TotalValues == {0, 79000, 80000, 100000, 120000}

RECURSIVE InsertNumber(_, _)
InsertNumber(sorted, e) ==
  IF sorted = <<>> THEN <<e>>
  ELSE IF Head(sorted) - e <= 0
       THEN <<Head(sorted)>> \o InsertNumber(Tail(sorted), e)
       ELSE <<e>> \o sorted

RECURSIVE SortYears(_)
\* [...years].sort((a, b) => a - b)
SortYears(years) ==
  IF years = <<>> THEN <<>>
  ELSE InsertNumber(SortYears(SubSeq(years, 1, Len(years) - 1)), years[Len(years)])

\* Math.round(num / den) for den > 0: halves round towards plus infinity
RoundDiv(num, den) == (2 * num + den) \div (2 * den)

\* Math.round(((currentTotal - previousTotal) / previousTotal) * 100 * 10) / 10,
\* held in tenths of a percent
FractionChange(currentTotal, previousTotal) ==
  RoundDiv((currentTotal - previousTotal) * 10, previousTotal)
PercentChange(currentTotal, previousTotal) ==
  RoundDiv((currentTotal - previousTotal) * 1000, previousTotal)

\* a change: null, or a number of tenths of a percent
NullChange == [isNull |-> TRUE, tenths |-> 0]
Change(n) == [isNull |-> FALSE, tenths |-> n]

\* calculatePercentageChanges(totals, years): the value last assigned to
\* changes[year] by sortedYears.forEach
CalculatePercentageChanges(totals, years) ==
  LET sortedYears == SortYears(years)
      At(index) ==
        IF index = 1 THEN NullChange
        ELSE LET previousTotal == totals[sortedYears[index - 1]]
                 currentTotal == totals[sortedYears[index]]
             IN IF previousTotal = 0 THEN NullChange
                ELSE Change(PercentChange(currentTotal, previousTotal))
  IN [y \in Range(years) |->
        At(CHOOSE i \in 1..Len(sortedYears) :
             /\ sortedYears[i] = y
             /\ \A j \in 1..Len(sortedYears) : sortedYears[j] = y => j <= i)]

\* ---------------------------------------------- EnergyChart time ranges
MaxSpanLen == 3
\* allTimeRangeOptions, in order
AllTimeRangeOptions ==
  << [value |-> "daily", minDays |-> 1], [value |-> "7d", minDays |-> 7],
     [value |-> "30d", minDays |-> 30], [value |-> "90d", minDays |-> 90],
     [value |-> "year", minDays |-> 365], [value |-> "all", minDays |-> 366] >>
\* the series whose span is measured: a reading on the first day and
\* readings just short of, and at, each minimum, some unparseable
SpanDays == {0} \cup UNION {{o.minDays - 1, o.minDays} : o \in Range(AllTimeRangeOptions)}
SpanSeries ==
  SeqUpTo([date : {Ts(d, sl) : d \in SpanDays, sl \in Slots} \cup {Bad}, value : {15}],
          MaxSpanLen)

\* Math.ceil(a / b) for a >= 0, b > 0
Ceil(a, b) == (a + b - 1) \div b

\* getDataRangeInDays(); NaN when a timestamp does not parse
GetDataRangeInDays(data) ==
  IF Len(data) = 0 THEN 0
  ELSE LET dates == {GetTime(data[i].date) : i \in 1..Len(data)}
           minDate == CHOOSE x \in dates : \A y \in dates : x <= y
           maxDate == CHOOSE x \in dates : \A y \in dates : x >= y
       IN IF NaN \in dates THEN NaN ELSE Ceil(maxDate - minDate, SlotsPerDay)

\* dataRangeInDays >= option.minDays, false for NaN
Reaches(dataRangeInDays, minDays) ==
  dataRangeInDays # NaN /\ dataRangeInDays >= minDays

\* timeRangeOptions: the options kept by the filter
TimeRangeOptions(data) ==
  SelectSeq(AllTimeRangeOptions,
    LAMBDA option : option.minDays = 0
                    \/ Reaches(GetDataRangeInDays(data), option.minDays))

\* -------------------------------------------------- getCurrentTariffInfo
MaxTariffRates == 3
\* runtime timezone offsets in hours, and the UTC hour of day at which a
\* fetched rate entry starts
HourOffsets == {-1, 0, 1}
RateHours == {0, 5}
\* unit rates in ten-thousandths of a penny: 7p, 8p, 10p
UnitRateValues == {70000, 80000, 100000}

\* a timestamp at UTC hour h, and new Date(label).getHours() under offset tz
HourLabel(h) == [kind |-> "hour", hour |-> h]
GetHours(l, tz) == (l.hour + tz + 24) % 24

HourlyRate(h, v) == [value_inc_vat |-> v, valid_from |-> HourLabel(h)]
\* what the standard-unit-rates endpoint may answer for the last two days
HourlyRateOutcomes ==
  {NotOk, Reject} \cup
  {Ok(rs) : rs \in SeqUpTo({HourlyRate(h, v) : h \in RateHours, v \in UnitRateValues},
                           MaxTariffRates)}

\* the agreement lists of meter M1 (and G1) examined for the current tariff
TariffAccounts ==
  {Account(ags) : ags \in
     { <<>>,
       <<Ag("A", 0, 1)>>,
       <<Ag("A", 1, Absent)>>,
       <<Ag("A", 0, 1), Ag("B", 1, Absent)>>,
       <<Ag("B", 0, Absent), Ag("A", 1, Absent)>> }}

\* a <= b and a > b on two ISO timestamp strings of one format: the strings
\* are compared position by position, the date before the time of day
IsoLeq(a, b) == a.day < b.day \/ (a.day = b.day /\ a.slot <= b.slot)
IsoGreater(a, b) == ~IsoLeq(a, b)

\* a.valid_from <= now && (a.valid_to === null || a.valid_to > now)
ActiveNow(a, now) ==
  /\ IsoLeq(a.valid_from, TimeLabel(now))
  /\ (a.valid_to.kind = "null" \/ IsoGreater(a.valid_to, TimeLabel(now)))

\* every value currentAgreement is assigned by the scan of the properties,
\* in order; the last assignment stands
CurrentAgreements(account, meterPoint, now) ==
  Flatten([p \in 1..Len(account) |->
    LET mps == PointsOfType(account[p], meterPoint.type)
    IN Flatten([m \in 1..Len(mps) |->
         IF SameMeter(mps[m], meterPoint)
         THEN LET activeAgreements ==
                    SelectSeq(mps[m].agreements, LAMBDA a : ActiveNow(a, now))
              IN IF Len(activeAgreements) > 0
                 THEN <<activeAgreements[1]>> ELSE <<>>
         ELSE <<>>])])

RECURSIVE MathMin(_)
\* Math.min(...values) of a non-empty array
MathMin(values) ==
  IF Len(values) = 1 THEN values[1]
  ELSE LET m == MathMin(Tail(values))
       IN IF Head(values) < m THEN Head(values) ELSE m

\* values.reduce((sum, r) => sum + r, 0) / values.length, kept as a fraction
Mean(values) == [sum |-> SumSeq(values), count |-> Len(values)]

\* minNightRate <= medianDayRate * 0.8
CheaperOrEqual(minNightRate, medianDayRate) ==
  minNightRate * medianDayRate.count * 10 <= 8 * medianDayRate.sum
\* minNightRate < medianDayRate * 0.8
Cheaper(minNightRate, medianDayRate) ==
  minNightRate * medianDayRate.count * 10 < 8 * medianDayRate.sum

NightHours == {0, 1, 2, 3, 4}

NullInfo ==
  [threw |-> FALSE, isNull |-> TRUE, standardRate |-> [sum |-> 0, count |-> 1],
   nightRate |-> Absent, standingCharge |-> 0, tariffCode |-> ""]
ThrownInfo == [NullInfo EXCEPT !.threw = TRUE, !.isNull = FALSE]

\* the body of the try block; an awaited fetch that rejects throws
TariffInfoBody(accountDetails, meterPoint, now, tz, rateResp, scResp) ==
  LET assigned == CurrentAgreements(accountDetails, meterPoint, now)
  IN IF assigned = <<>> THEN NullInfo
     ELSE IF rateResp.kind = "reject" \/ scResp.kind = "reject" THEN ThrownInfo
     ELSE
       LET agreement == assigned[Len(assigned)]
           rates == GetTariffRates(rateResp)
           standingCharge == GetStandingCharges(scResp)
           all == [i \in 1..Len(rates) |-> rates[i].value_inc_vat]
           nightRates ==
             SelectSeq(rates, LAMBDA r : GetHours(r.valid_from, tz) \in NightHours)
           dayRates ==
             SelectSeq(rates, LAMBDA r : GetHours(r.valid_from, tz) \notin NightHours)
           nightRateValues ==
             [i \in 1..Len(nightRates) |-> nightRates[i].value_inc_vat]
           dayRateValues == [i \in 1..Len(dayRates) |-> dayRates[i].value_inc_vat]
           found == [threw |-> FALSE, isNull |-> FALSE, standardRate |-> Mean(all),
                     nightRate |-> Absent, standingCharge |-> standingCharge,
                     tariffCode |-> agreement.tariff_code]
       IN IF Len(rates) = 0 THEN NullInfo
          ELSE IF /\ Len(nightRateValues) > 0
                  /\ Len(dayRateValues) > 0
                  /\ Cheaper(MathMin(nightRateValues), Mean(dayRateValues))
               THEN [found EXCEPT !.nightRate = MathMin(nightRateValues),
                                  !.standardRate = Mean(dayRateValues)]
               ELSE found

\* the body without its catch clause
GetCurrentTariffInfoUncaught(accountDetails, meterPoint, now, tz, rateResp, scResp) == TariffInfoBody(accountDetails, meterPoint, now, tz, rateResp, scResp)
\* try { ... } catch (error) { return null; }
GetCurrentTariffInfo(accountDetails, meterPoint, now, tz, rateResp, scResp) == LET r == TariffInfoBody(accountDetails, meterPoint, now, tz, rateResp, scResp) IN IF r.threw THEN NullInfo ELSE r

\* ---------------------------------------------------------------- state
VARIABLES
  op,         \* the operation that ran last
  csvInput,   \* parsed CSV handed to the processCSV call that just resolved
  chartData,  \* the series held by the application (electricData / gasData)
  fArgs,      \* arguments and environment of the last filterDataByTimeRange call
  fOut,       \* its outcome: [threw, out]
  cArgs,      \* arguments of the last rate lookup / costing call, with the
              \* answer of the rate endpoint to each fetch (resp) and the
              \* answer the standing-charge endpoint holds for the call (sc)
  cOut,       \* its outcome
  totalCost,  \* electricTotalCost / gasTotalCost; NoCost stands for null
  apiError,   \* the error shown by ApiConnection; "" stands for null
  cmpArgs,    \* arguments and timezone of the last comparison / totals call
  cmpOut,     \* its result
  fRefs,      \* which objects the last filterDataByTimeRange call returned
  fPrev,      \* arguments, environment and outcome of the call before it
  tArgs,      \* arguments, environment and endpoint answers of the last
              \* getCurrentTariffInfo call
  tOut,       \* its outcome
  fromApi,    \* electricFromApi / gasFromApi
  pending,    \* the series of the file reads whose onload has not run yet
  inFlight,   \* the API fetches started and not yet delivered
  fetches,    \* number of API fetches started so far
  dataFrom,   \* which completion stored the displayed series
  costFrom    \* which completion stored the total cost

csvVars == <<op, csvInput, chartData, fArgs, fOut>>
costVars == <<cArgs, cOut, totalCost, apiError>>
cmpVars == <<cmpArgs, cmpOut>>
tariffVars == <<tArgs, tOut>>
sessionVars == <<fromApi, pending, inFlight, fetches, dataFrom, costFrom>>
extVars == <<fRefs, fPrev, tariffVars, sessionVars>>
vars == <<op, csvInput, chartData, fArgs, fOut, cArgs, cOut, totalCost, apiError,
         cmpArgs, cmpOut, extVars>>

NoArgs == [timeRange |-> "all", selectedDate |-> Undefined, now |-> 0, tz |-> 0]
NoOut == [threw |-> FALSE, out |-> <<>>]
NoFetch == [kind |-> "none", results |-> <<>>]
NoCall ==
  [account |-> <<>>, meterPoint |-> ElecMeter(""), consumptionData |-> <<>>,
   startDate |-> 0, endDate |-> 0, resp |-> <<>>, sc |-> NoFetch]
NoCost == -1
Origin(kind, n) == [kind |-> kind, n |-> n]
NoRefs == [array |-> "fresh", elems |-> <<>>]
NoTariffCall ==
  [accountDetails |-> <<>>, meterPoint |-> ElecMeter(""), now |-> 0, tz |-> 0,
   rateResp |-> NoFetch, scResp |-> NoFetch]
NoCompare == [data |-> <<>>, years |-> <<>>, month |-> 0, tz |-> 0, totals |-> <<>>]

Init ==
  /\ op = "init"
  /\ csvInput = NoFile
  /\ chartData = <<>>
  /\ fArgs = NoArgs
  /\ fOut = NoOut
  /\ cArgs = NoCall
  /\ cOut = NoCosts
  /\ totalCost = NoCost
  /\ apiError = ""
  /\ cmpArgs = NoCompare
  /\ cmpOut = <<>>
  /\ fRefs = NoRefs
  /\ fPrev = [args |-> NoArgs, out |-> NoOut]
  /\ tArgs = NoTariffCall
  /\ tOut = NullInfo
  /\ fromApi = FALSE
  /\ pending = {}
  /\ inFlight = {}
  /\ fetches = 0
  /\ dataFrom = Origin("none", 0)
  /\ costFrom = Origin("none", 0)

\* reader.onload of the upload a session starts with: processCSV resolves
\* and setElectricData / setGasData stores the series
ProcessCSV ==
  /\ op = "init"
  /\ \E file \in CsvFiles :
      \E data \in ProcessCSVOutcomes(file) :
      /\ op' = "processCSV"
      /\ csvInput' = file
      /\ chartData' = data
      /\ fArgs' = NoArgs
      /\ fOut' = NoOut
      /\ UNCHANGED <<costVars, cmpVars, extVars>>

\* the half-hourly readings an API fetch may deliver for display
ApiConsumptionValues == {1004, 15}
ApiReadings ==
  {s \in SeqUpTo({ConsumptionPoint(t, c) : t \in ApiTimes, c \in ApiConsumptionValues},
                 MaxPoints) :
     \A i, j \in 1..Len(s) :
        i < j => GetTime(s[i].interval_start) < GetTime(s[j].interval_start)}

\* handleApiDataFetched: the series of an API fetch made without account
\* details is stored for display, with no total cost
ApiDataFetched ==
  /\ op = "init"
  /\ op' = "apiData"
  /\ \E consumptionData \in ApiReadings :
       chartData' = ConvertConsumptionToAppFormat(consumptionData)
  /\ totalCost' = NoCost
  /\ UNCHANGED <<csvInput, fArgs, fOut, cArgs, cOut, apiError, cmpVars, extVars>>

\* EnergyChart renders the stored series:
\* filterDataByTimeRange(data, timeRange, selectedDate).  The daily view with
\* a selected date reads the runtime timezone and never the clock; every
\* other call reads the clock and never the timezone.  An input the call
\* does not read is recorded with its NoArgs value.
FilterData ==
  /\ op \in {"processCSV", "apiData"}
  /\ op' = "filter"
  /\ csvInput' = NoFile
  /\ \/ \E selectedDate \in SelectedDates \ {Undefined}, tz \in TzOffsets :
          /\ fArgs' = [NoArgs EXCEPT !.timeRange = "daily",
                         !.selectedDate = selectedDate, !.tz = tz]
          /\ fOut' = FilterDataByTimeRange(chartData, "daily", selectedDate,
                                           NoArgs.now, tz)
     \/ \E timeRange \in TimeRanges, now \in NowSet :
          /\ fArgs' = [NoArgs EXCEPT !.timeRange = timeRange, !.now = now]
          /\ fOut' = FilterDataByTimeRange(chartData, timeRange, Undefined,
                                           now, NoArgs.tz)
  /\ fRefs' = FilterDataRefs(chartData, fArgs'.timeRange, fArgs'.selectedDate,
                             fArgs'.tz, fOut')
  /\ UNCHANGED chartData
  /\ UNCHANGED <<costVars, cmpVars, fPrev, tariffVars, sessionVars>>

\* a call of getHistoricalRatesForMeter
LookupRates ==
  /\ op = "init"
  /\ \E account \in Accounts, meterPoint \in MeterPoints,
        startDate \in ApiTimes, endDate \in ApiTimes :
    \E resp \in ResponseSeqs(
                  ActiveTariffCodes(account, meterPoint, startDate, endDate),
                  MaxRates, TRUE) :
      LET lookup == GetHistoricalRatesForMeter(account, meterPoint, startDate,
                                               endDate, resp)
      IN /\ op' = "lookup"
         /\ cArgs' = [NoCall EXCEPT !.account = account,
                        !.meterPoint = meterPoint, !.startDate = startDate,
                        !.endDate = endDate, !.resp = resp]
         /\ cOut' = [NoCosts EXCEPT !.threw = lookup.threw,
                       !.tariffCodes = lookup.tariffCodes,
                       !.rates = lookup.rates]
         /\ UNCHANGED <<csvInput, chartData, fArgs, fOut, totalCost, apiError, cmpVars, extVars>>

CostWindows == {<<0, MaxApiTime>>, <<MaxApiTime, MaxApiTime>>}

\* handleFetchData up to the return of calculateCostsWithHistoricalRates:
\* the consumption was fetched and account details are present
CalculateCosts ==
  /\ op = "init"
  /\ \E account \in CostingAccounts,
        meterPoint \in {ElecMeter("M1"), GasMeter("G1")},
        consumptionData \in ConsumptionSeries, w \in CostWindows :
    \E resp \in ResponseSeqs(ActiveTariffCodes(account, meterPoint, w[1], w[2]),
                             MaxRates, FALSE) :
      LET chargeCodes == MeterTariffCodes(account, meterPoint)
      IN \E sc \in IF Len(chargeCodes) > 0 THEN StandingOutcomes(chargeCodes[1])
                   ELSE {NoFetch} :
           /\ op' = "costs"
           /\ cArgs' = [account |-> account, meterPoint |-> meterPoint,
                        consumptionData |-> consumptionData,
                        startDate |-> w[1], endDate |-> w[2],
                        resp |-> resp, sc |-> sc]
           /\ cOut' = CalculateCostsWithHistoricalRates(account, meterPoint,
                        consumptionData, w[1], w[2], resp, sc)
           /\ UNCHANGED <<csvInput, chartData, fArgs, fOut, totalCost, apiError, cmpVars, extVars>>

\* handleFetchData after calculateCostsWithHistoricalRates returned or
\* threw: onDataFetched (handleApiDataFetched) stores the series and the cost
FetchDataDeliver ==
  /\ op = "costs"
  /\ op' = "fetched"
  /\ chartData' = IF cOut.threw
                  THEN ConvertConsumptionToAppFormat(cArgs.consumptionData)
                  ELSE ConvertConsumptionToAppFormat(cOut.data)
  /\ totalCost' = IF cOut.threw THEN NoCost ELSE TotalCostWithStanding(cOut.data)
  /\ apiError' = ""
  /\ UNCHANGED <<csvInput, fArgs, fOut, cArgs, cOut, cmpVars, extVars>>

FetchFailures ==
  {"Please select a meter and date range", "Selected meter not found",
   "Failed to fetch electricity consumption"}

\* handleFetchData on the paths that never reach the costing: incomplete
\* form, unknown meter, failed consumption fetch, or no account details
FetchDataNoCosts ==
  /\ op = "init"
  /\ op' = "fetched"
  /\ \/ \E msg \in FetchFailures :
          /\ apiError' = msg
          /\ UNCHANGED <<chartData, totalCost>>
     \/ \E consumptionData \in ConsumptionSeries :
          /\ chartData' = ConvertConsumptionToAppFormat(consumptionData)
          /\ totalCost' = NoCost
          /\ apiError' = ""
  /\ UNCHANGED <<csvInput, fArgs, fOut, cArgs, cOut, cmpVars, extVars>>

\* filterDataByTimeRange(series, "all") called on a series that is itself the
\* result of an "all" call; chartData holds the series handed to the call
RefilterAll ==
  /\ op = "filter"
  /\ fArgs.timeRange = "all"
  /\ ~fOut.threw
  /\ op' = "refilter"
  /\ chartData' = fOut.out
  /\ fOut' = FilterDataByTimeRange(fOut.out, "all", Undefined, fArgs.now, NoArgs.tz)
  /\ fRefs' = FilterDataRefs(fOut.out, "all", Undefined, NoArgs.tz, fOut')
  /\ UNCHANGED <<csvInput, fArgs>>
  /\ UNCHANGED <<costVars, cmpVars, fPrev, tariffVars, sessionVars>>

\* EnergyChart renders again with the same series, window and selected
\* date: a second filterDataByTimeRange call with equal arguments, run at
\* another instant.  The daily view with a selected date does not read the
\* clock.
FilterAgain ==
  /\ op = "filter"
  /\ op' = "filterAgain"
  /\ fPrev' = [args |-> fArgs, out |-> fOut]
  /\ IF fArgs.timeRange = "daily" /\ Truthy(fArgs.selectedDate)
     THEN /\ fArgs' = fArgs
          /\ fOut' = FilterDataByTimeRange(chartData, "daily", fArgs.selectedDate,
                                           NoArgs.now, fArgs.tz)
     ELSE \E now \in NowSet :
          /\ fArgs' = [fArgs EXCEPT !.now = now]
          /\ fOut' = FilterDataByTimeRange(chartData, fArgs.timeRange, Undefined,
                                           now, NoArgs.tz)
  /\ fRefs' = FilterDataRefs(chartData, fArgs'.timeRange, fArgs'.selectedDate,
                             fArgs'.tz, fOut')
  /\ UNCHANGED <<csvInput, chartData, costVars, cmpVars, tariffVars, sessionVars>>

NextRepeat == ApiDataFetched \/ FilterData \/ FilterAgain

SpecRepeat == Init /\ [][NextRepeat]_vars

NextCsv == ProcessCSV \/ ApiDataFetched \/ FilterData \/ RefilterAll

SpecCsv == Init /\ [][NextCsv]_vars

NextCost == LookupRates \/ CalculateCosts \/ FetchDataDeliver \/ FetchDataNoCosts

SpecCost == Init /\ [][NextCost]_vars

\* the state every comparison call leaves alone
appVars == <<csvInput, chartData, fArgs, fOut, cArgs, cOut, totalCost, apiError>>

\* EnergyChart, year mode: compareYears(data, comparisonYears)
CompareYearsCall ==
  /\ op = "init"
  /\ op' = "compareYears"
  /\ \E data \in CompareSeries, years \in YearLists, tz \in TzOffsets :
       /\ cmpArgs' = [NoCompare EXCEPT !.data = data, !.years = years, !.tz = tz]
       /\ cmpOut' = CompareYears(data, years, tz)
  /\ UNCHANGED <<appVars, extVars>>

\* EnergyChart, month mode: compareMonths(data, comparisonMonth, comparisonYears)
CompareMonthsCall ==
  /\ op = "init"
  /\ op' = "compareMonths"
  /\ \E data \in CompareSeries, month \in Months, years \in YearLists,
        tz \in TzOffsets :
       /\ cmpArgs' = [NoCompare EXCEPT !.data = data, !.month = month,
                                       !.years = years, !.tz = tz]
       /\ cmpOut' = CompareMonths(data, month, years, tz)
  /\ UNCHANGED <<appVars, extVars>>

\* EnergyChart, year mode: calculateYearTotals(data, comparisonYears)
YearTotalsCall ==
  /\ op = "init"
  /\ op' = "yearTotals"
  /\ \E data \in CompareSeries, years \in YearLists, tz \in TzOffsets :
       /\ cmpArgs' = [NoCompare EXCEPT !.data = data, !.years = years, !.tz = tz]
       /\ cmpOut' = CalculateYearTotals(data, years, tz)
  /\ UNCHANGED <<appVars, extVars>>

\* EnergyChart: calculatePercentageChanges(totals, comparisonYears)
PercentageChangesCall ==
  /\ op = "init"
  /\ op' = "changes"
  /\ \E years \in YearLists :
       \E totals \in [Range(years) -> TotalValues] :
         /\ cmpArgs' = [NoCompare EXCEPT !.years = years, !.totals = totals]
         /\ cmpOut' = CalculatePercentageChanges(totals, years)
  /\ UNCHANGED <<appVars, extVars>>

\* EnergyChart renders the window selector of a series: timeRangeOptions
TimeRangeOptionsCall ==
  /\ op = "init"
  /\ op' = "timeRangeOptions"
  /\ \E data \in SpanSeries :
       /\ cmpArgs' = [NoCompare EXCEPT !.data = data]
       /\ cmpOut' = TimeRangeOptions(data)
  /\ UNCHANGED <<appVars, extVars>>

NextCompare ==
  \/ CompareYearsCall \/ CompareMonthsCall \/ YearTotalsCall
  \/ PercentageChangesCall \/ TimeRangeOptionsCall

SpecCompare == Init /\ [][NextCompare]_vars

\* ApiConnection asks for the tariff summary of the selected meter:
\* getCurrentTariffInfo(accountDetails, meterPoint).  No endpoint is asked
\* when the scan finds no current agreement.
TariffInfo ==
  /\ op = "init"
  /\ op' = "tariffInfo"
  /\ \E accountDetails \in TariffAccounts, meterPoint \in MeterPoints,
        now \in ApiTimes :
       LET assigned == CurrentAgreements(accountDetails, meterPoint, now)
           call == [NoTariffCall EXCEPT !.accountDetails = accountDetails,
                                        !.meterPoint = meterPoint, !.now = now]
       IN \/ /\ assigned = <<>>
             /\ tArgs' = call
             /\ tOut' = GetCurrentTariffInfo(accountDetails, meterPoint, now,
                                             0, NoFetch, NoFetch)
          \/ /\ assigned # <<>>
             /\ \E tz \in HourOffsets, rateResp \in HourlyRateOutcomes,
                   scResp \in StandingOutcomes(assigned[Len(assigned)].tariff_code) :
                  /\ tArgs' = [call EXCEPT !.tz = tz, !.rateResp = rateResp,
                                           !.scResp = scResp]
                  /\ tOut' = GetCurrentTariffInfo(accountDetails, meterPoint,
                                                  now, tz, rateResp, scResp)
  /\ UNCHANGED <<csvInput, chartData, fArgs, fOut, costVars, cmpVars, fRefs, fPrev,
                 sessionVars>>

NextTariff == TariffInfo

SpecTariff == Init /\ [][NextTariff]_vars

\* ---------------------------------------------- DailyEnergyUsage session
\* One energy type of DailyEnergyUsage: file reads and API fetches complete
\* in any order.  dataFrom and costFrom record which completion last stored
\* the series and the total cost: a file read, a clear, or the API fetch
\* of a given number.
MaxPending == 1
MaxFetches == 2
\* the series a chosen file resolves to
UploadSeries ==
  UNION {ProcessCSVOutcomes(file) :
           file \in [startHdr : {"Start"}, consHdr : {"Consumption (kwh)"},
                     rows : SeqUpTo([start : {Str(0, l) : l \in TsLabels},
                                     cons : {15}], 1)]}
\* the total cost handleFetchData passes on, in 10^-7 pounds; NoCost when it
\* passes none
FetchedCosts == {NoCost, 15000000}

\* handleFileUpload: a file was chosen in the FileUpload card, which is
\* rendered while the series did not come from the API; the read is started
HandleFileUpload ==
  /\ ~fromApi
  /\ Cardinality(pending) < MaxPending
  /\ op' = "handleFileUpload"
  /\ \E data \in UploadSeries \ pending : pending' = pending \cup {data}
  /\ UNCHANGED <<csvInput, chartData, fArgs, fOut, costVars, cmpVars, fRefs, fPrev,
                 tariffVars, fromApi, inFlight, fetches, dataFrom, costFrom>>

\* reader.onload of a started read: processCSV resolves and the series is
\* stored
ReaderOnload ==
  /\ op' = "onload"
  /\ \E data \in pending :
       /\ pending' = pending \ {data}
       /\ chartData' = data
  /\ dataFrom' = Origin("csv", 0)
  /\ UNCHANGED <<csvInput, fArgs, fOut, costVars, cmpVars, fRefs, fPrev,
                 tariffVars, fromApi, inFlight, fetches, costFrom>>

\* onClear of the FileUpload card, offered while it shows loaded readings
ClearData ==
  /\ ~fromApi
  /\ Len(chartData) > 0
  /\ op' = "onClear"
  /\ chartData' = <<>>
  /\ dataFrom' = Origin("cleared", 0)
  /\ UNCHANGED <<csvInput, fArgs, fOut, costVars, cmpVars, fRefs, fPrev,
                 tariffVars, fromApi, pending, inFlight, fetches, costFrom>>

\* handleFetchData starts: the button is disabled while a fetch is loading
HandleFetchData ==
  /\ inFlight = {}
  /\ fetches < MaxFetches
  /\ op' = "handleFetchData"
  /\ fetches' = fetches + 1
  /\ inFlight' = {fetches + 1}
  /\ UNCHANGED <<csvInput, chartData, fArgs, fOut, costVars, cmpVars, fRefs, fPrev,
                 tariffVars, fromApi, pending, dataFrom, costFrom>>

\* handleFetchData ends: it either failed before delivering anything, or
\* called onDataFetched (handleApiDataFetched), which stores the series,
\* the total cost (null when none was passed) and the API flag
HandleApiDataFetched ==
  /\ op' = "handleApiDataFetched"
  /\ \E n \in inFlight :
       /\ inFlight' = inFlight \ {n}
       /\ \/ UNCHANGED <<chartData, totalCost, fromApi, dataFrom, costFrom>>
          \/ \E consumptionData \in ApiReadings, cost \in FetchedCosts :
               /\ chartData' = ConvertConsumptionToAppFormat(consumptionData)
               /\ totalCost' = cost
               /\ fromApi' = TRUE
               /\ dataFrom' = Origin("fetch", n)
               /\ costFrom' = Origin("fetch", n)
  /\ UNCHANGED <<csvInput, fArgs, fOut, cArgs, cOut, apiError, cmpVars, fRefs, fPrev,
                 tariffVars, pending, fetches>>

NextSession ==
  \/ HandleFileUpload \/ ReaderOnload \/ ClearData
  \/ HandleFetchData \/ HandleApiDataFetched

SpecSession == Init /\ [][NextSession]_vars

\* ======================================================================
\* Properties of processCSV and filterDataByTimeRange (SpecCsv)
\* ======================================================================
Rows == csvInput.rows
RowIdx == 1..Len(Rows)

\* the consumption value of a row as a number (a missing value counts 0)
ConsOf == [i \in RowIdx |-> IF Rows[i].cons = Absent THEN 0 ELSE Rows[i].cons]

\* the row has no Start text: the field is missing, empty or only blanks
HasNoStart(row) == ~row.start.def \/ row.start.core.kind = "empty"
WithStart == {i \in RowIdx : ~HasNoStart(Rows[i])}

SumValues(series) == SumSeq([k \in 1..Len(series) |-> series[k].value])

\* C1 as stated: the output values of processCSV sum to the consumption of
\* ALL input rows, within the rounding of 0.005 kWh per output entry.
C1_ConservationAllRows ==
  op = "processCSV" =>
    Abs(SumValues(chartData) - SumSet(RowIdx, ConsOf)) <= 5 * Len(chartData)

\* C1 (amended): the output values of processCSV sum to the consumption of
\* the input rows that carry a non-empty Start timestamp, within the rounding
\* of 0.005 kWh per output entry.
C1_Conservation ==
  op = "processCSV" =>
    Abs(SumValues(chartData) - SumSet(WithStart, ConsOf)) <= 5 * Len(chartData)

\* two rows were summed into one entry and rounding changed the total
C1_Witness ==
  /\ op = "processCSV"
  /\ Cardinality(WithStart) = 2
  /\ Len(chartData) = 1
  /\ SumValues(chartData) # SumSet(WithStart, ConsOf)
  /\ SumValues(chartData) > 0

\* C8 as stated: an unparseable timestamp never makes processCSV followed by
\* filterDataByTimeRange fail, for any window, and contributes to no entry
\* of the filtered output.
HasUnparseable(series) == \E k \in 1..Len(series) : GetTime(series[k].date) = NaN
Parseable(series) == SelectSeq(series, LAMBDA e : GetTime(e.date) # NaN)
C8_UnparseableNeverFatal ==
  (op = "filter" /\ HasUnparseable(chartData)) =>
     /\ ~fOut.threw
     /\ fOut.out = FilterDataByTimeRange(Parseable(chartData), fArgs.timeRange,
                      fArgs.selectedDate, fArgs.now, fArgs.tz).out

\* C9 as stated: the grouping key is the timestamp string exactly as
\* supplied, so there are as many output entries as distinct supplied
\* strings, and no two entries share a label.
C9_GroupsBySuppliedString ==
  op = "processCSV" =>
    /\ Len(chartData) = Cardinality({Rows[i].start : i \in WithStart})
    /\ \A k, l \in 1..Len(chartData) :
         chartData[k].date = chartData[l].date => k = l

\* C9 (amended): the grouping key is the timestamp string with surrounding
\* whitespace removed: the output labels are exactly the distinct trimmed
\* timestamps, each entry is the rounded sum of the rows with that trimmed
\* timestamp (different timestamps of one day stay apart), and no two
\* entries share a label.
C9_GroupsByTrimmedString ==
  op = "processCSV" =>
    /\ {chartData[k].date : k \in 1..Len(chartData)}
         = {Rows[i].start.core : i \in WithStart}
    /\ \A k \in 1..Len(chartData) :
         chartData[k].value =
           Round2(SumSet({i \in WithStart : Rows[i].start.core = chartData[k].date},
                         ConsOf))
    /\ \A k, l \in 1..Len(chartData) :
         chartData[k].date = chartData[l].date => k = l

\* two timestamps of the same calendar day stayed two entries
C9_Witness ==
  /\ op = "processCSV"
  /\ Len(chartData) = 2
  /\ chartData[1].date.kind = "ts"
  /\ chartData[2].date.kind = "ts"
  /\ chartData[1].date.day = chartData[2].date.day
  /\ chartData[1].date.slot # chartData[2].date.slot
  /\ chartData[1].value > 0

\* C10: a row with a missing or empty Start is dropped: the result is a
\* result of processing the file without those rows, and no output entry
\* carries an empty label.
C10_NoStartRowDropped ==
  op = "processCSV" =>
    /\ chartData \in ProcessCSVOutcomes(
         [csvInput EXCEPT !.rows = SelectSeq(Rows, LAMBDA r : ~HasNoStart(r))])
    /\ \A k \in 1..Len(chartData) : chartData[k].date.kind # "empty"

\* a row without Start carried consumption next to a row that was kept
C10_Witness ==
  /\ op = "processCSV"
  /\ \E i \in RowIdx : HasNoStart(Rows[i]) /\ ConsOf[i] > 0
  /\ \E i \in WithStart : ConsOf[i] > 0
  /\ Len(chartData) = 1

\* index of the first row that carries the label
FirstRow(label) == CHOOSE i \in WithStart :
  /\ Rows[i].start.core = label
  /\ \A j \in WithStart : Rows[j].start.core = label => i <= j

\* C11 as stated: the output of processCSV is in ascending order of the
\* parsed instants of its labels, and labels that parse to the same instant
\* keep the order of their first rows.
C11_SortedByInstant ==
  op = "processCSV" =>
    \A k, l \in 1..Len(chartData) :
      (k < l /\ GetTime(chartData[k].date) # NaN /\ GetTime(chartData[l].date) # NaN)
        => /\ GetTime(chartData[k].date) <= GetTime(chartData[l].date)
           /\ GetTime(chartData[k].date) = GetTime(chartData[l].date)
                => FirstRow(chartData[k].date) < FirstRow(chartData[l].date)

\* a filterDataByTimeRange call was made with this window
Filtered(timeRange) == op = "filter" /\ fArgs.timeRange = timeRange

\* indexes of the entries of the input series that lie on UTC calendar day
\* d and belong to the index set S
OnDay(S, d) ==
  {i \in S : GetTime(chartData[i].date) # NaN
             /\ GetTime(chartData[i].date) \div SlotsPerDay = d}

InputValue == [i \in 1..Len(chartData) |-> chartData[i].value]

\* the output is one entry per day with an entry in S, carrying F(sum)
DailySums(S, F(_)) ==
  /\ ~fOut.threw
  /\ {fOut.out[k].date : k \in 1..Len(fOut.out)}
       = {DayLabel(GetTime(chartData[i].date) \div SlotsPerDay) :
            i \in {j \in S : GetTime(chartData[j].date) # NaN}}
  /\ \A k, l \in 1..Len(fOut.out) :
       fOut.out[k].date = fOut.out[l].date => k = l
  /\ \A k \in 1..Len(fOut.out) :
       fOut.out[k].value = F(SumSet(OnDay(S, fOut.out[k].date.day), InputValue))

Exactly(v) == v

\* C12 as stated: with window 'all' no entry is cut off and the call returns
\* one entry per calendar day that has an input entry, carrying the sum of
\* that day's input values.
C12_AllSumsPerDay ==
  Filtered("all") => DailySums(1..Len(chartData), Exactly)

\* the window length in days of a windowed call
WindowOf(timeRange) ==
  CASE timeRange = "7d" -> 7 [] timeRange = "30d" -> 30
    [] timeRange = "90d" -> 90 [] timeRange = "year" -> 365 [] OTHER -> 0

Windowed == op = "filter" /\ fArgs.timeRange \in {"7d", "30d", "90d", "year"}

\* the entries with timestamp >= now - N days
Kept ==
  {i \in 1..Len(chartData) :
     /\ GetTime(chartData[i].date) # NaN
     /\ GetTime(chartData[i].date)
          >= fArgs.now - WindowOf(fArgs.timeRange) * SlotsPerDay}

\* C13 as stated: a windowed call keeps exactly the entries with timestamp
\* >= now - N days and emits, per calendar day with a kept entry, the sum of
\* the kept values of that day; other days are absent.
C13_WindowSumsExact ==
  Windowed => DailySums(Kept, Exactly)

\* C13 (amended): a windowed call keeps exactly the entries with timestamp
\* >= now - N days and emits, per calendar day with a kept entry, the sum of
\* the kept values of that day rounded to 2 decimals; a day without a kept
\* entry is absent from the output.
C13_WindowSums ==
  Windowed => DailySums(Kept, Round2)

\* an entry lies exactly on the cutoff and is kept, an older one with
\* consumption is cut off, and the one emitted entry carries the kept value
C13_Witness ==
  /\ Windowed
  /\ \E i \in Kept :
       GetTime(chartData[i].date)
         = fArgs.now - WindowOf(fArgs.timeRange) * SlotsPerDay
  /\ \E i \in 1..Len(chartData) :
       /\ i \notin Kept
       /\ GetTime(chartData[i].date) # NaN
       /\ chartData[i].value > 0
  /\ Len(fOut.out) = 1
  /\ fOut.out[1].value > 0

\* C14 as stated: the daily view returns exactly the input entries whose
\* timestamp falls on the selected calendar date (same year, month and day),
\* in input order, labels and values unchanged.
C14_DailyByCalendarDate ==
  (Filtered("daily") /\ Truthy(fArgs.selectedDate)) =>
    /\ ~fOut.threw
    /\ fOut.out =
         SelectSeq(chartData,
           LAMBDA e : /\ GetTime(e.date) # NaN
                      /\ LocalDay(GetTime(e.date), fArgs.tz)
                           = fArgs.selectedDate.core.day)

\* C15 as stated: whatever the window and the input series, the output of
\* filterDataByTimeRange is in ascending order of date.
C15_OutputSorted ==
  (op \in {"filter", "refilter"} /\ ~fOut.threw) =>
    \A k, l \in 1..Len(fOut.out) :
      k < l => GetTime(fOut.out[k].date) <= GetTime(fOut.out[l].date)

\* C16: an 'all' call on a series that is the output of an 'all' call
\* returns that series: same labels, same order, same values.
C16_AllIdempotent ==
  op = "refilter" => (~fOut.threw /\ fOut.out = chartData)

\* a two-day daily series was aggregated again
C16_Witness ==
  /\ op = "refilter"
  /\ Len(chartData) = 2
  /\ chartData[1].value > 0
  /\ chartData[1].date # chartData[2].date
  /\ Len(fOut.out) = 2

\* ======================================================================
\* Properties of the rate lookup and the costing (SpecCost)
\* ======================================================================
MinOf(S) == CHOOSE x \in S : \A y \in S : x <= y

\* a costing call returned (did not throw)
CostReturned == op = "costs" /\ ~cOut.threw

\* start instant of the k-th costed interval
StartOf(k) == GetTime(cOut.data[k].interval_start)

\* indexes of the returned rate entries whose half-open window
\* [valid_from, valid_to) contains instant t, an absent valid_to being
\* unbounded
Covering(t) ==
  {i \in 1..Len(cOut.rates) :
     /\ GetTime(cOut.rates[i].valid_from) <= t
     /\ (cOut.rates[i].valid_to = Null \/ t < GetTime(cOut.rates[i].valid_to))}

\* every rate entry the endpoint answered, in fetch order
Fetched == Flatten([i \in 1..Len(cArgs.resp) |-> cArgs.resp[i].results])

\* C2: the rate list is in ascending valid_from order and holds every
\* fetched entry; each interval gets the rate of the FIRST entry of that
\* list whose half-open window contains its start instant (0 if none), so an
\* instant equal to valid_to is not served by that entry.
C2_FirstChronologicalMatch ==
  CostReturned =>
    /\ Len(cOut.rates) = Len(Fetched)
    /\ \A i, j \in 1..Len(cOut.rates) :
         i < j => GetTime(cOut.rates[i].valid_from)
                    <= GetTime(cOut.rates[j].valid_from)
    /\ \A k \in 1..Len(cOut.data) :
         cOut.data[k].rate =
           IF Covering(StartOf(k)) = {} THEN 0
           ELSE cOut.rates[MinOf(Covering(StartOf(k)))].value_inc_vat

\* two entries cover the instant, sorting decided which one is first, and
\* another interval starts exactly at an entry's valid_to
C2_Witness ==
  /\ CostReturned
  /\ Len(cOut.data) = 2
  /\ \E k \in 1..Len(cOut.data) :
       /\ Cardinality(Covering(StartOf(k))) = 2
       /\ \E i \in 1..Len(Fetched) :
            /\ GetTime(Fetched[i].valid_from) <= StartOf(k)
            /\ \A j \in 1..(i - 1) : GetTime(Fetched[j].valid_from) > StartOf(k)
            /\ Fetched[i].value_inc_vat # cOut.data[k].rate
  /\ \E k \in 1..Len(cOut.data), i \in 1..Len(cOut.rates) :
       /\ cOut.rates[i].valid_to # Null
       /\ GetTime(cOut.rates[i].valid_to) = StartOf(k)

DailyCharge == GetStandingCharges(cArgs.sc)

\* C4 as stated: for any list of rate entries, an interval that no entry
\* covers has rate 0 and cost 0, and its share is the prorated daily charge
\* (1/48 of the charge, in pounds) whenever a daily charge exists.
C4_UncoveredKeepsChargeAnyList ==
  CostReturned =>
    \A k \in 1..Len(cOut.data) :
      Covering(StartOf(k)) = {} =>
        /\ cOut.data[k].rate = 0
        /\ cOut.data[k].cost = 0
        /\ cOut.data[k].standingCharge * 4800 = DailyCharge

\* C4 (amended): for a non-empty list of rate entries, an interval that no
\* entry covers has rate 0 and cost 0 and its share is the prorated daily
\* charge; when no rate entry was resolved at all the share is 0 too.
C4_UncoveredKeepsCharge ==
  CostReturned =>
    \A k \in 1..Len(cOut.data) :
      Covering(StartOf(k)) = {} =>
        /\ cOut.data[k].rate = 0
        /\ cOut.data[k].cost = 0
        /\ cOut.data[k].standingCharge * 4800 =
             IF Len(cOut.rates) > 0 THEN DailyCharge ELSE 0

\* rates were resolved, none covers the interval, and a charge was shared
C4_Witness ==
  /\ CostReturned
  /\ Len(cOut.rates) > 0
  /\ \E k \in 1..Len(cOut.data) :
       /\ Covering(StartOf(k)) = {}
       /\ cOut.data[k].standingCharge > 0

\* C5 as stated: every costed interval carries the same share, 1/48 of the
\* daily charge, whatever its date and the number of intervals of its day.
C5_FixedShareAlways ==
  CostReturned =>
    \A k \in 1..Len(cOut.data) :
      cOut.data[k].standingCharge * 48 * 100 = DailyCharge

\* C5 (amended): every costed interval of a call carries the same share,
\* whatever its date and the number of intervals of its day: 1/48 of the
\* daily charge (in pounds) when at least one rate entry was resolved, and
\* 0 when none was.
C5_FixedShare ==
  CostReturned =>
    /\ \A k, l \in 1..Len(cOut.data) :
         cOut.data[k].standingCharge = cOut.data[l].standingCharge
    /\ \A k \in 1..Len(cOut.data) :
         /\ Len(cOut.rates) > 0 => cOut.data[k].standingCharge * 48 * 100 = DailyCharge
         /\ Len(cOut.rates) = 0 => cOut.data[k].standingCharge = 0

\* a day with two intervals and a day with one got the same non-zero share
C5_Witness ==
  /\ CostReturned
  /\ \E k, l \in 1..Len(cOut.data) :
       /\ cOut.data[k].interval_start.day # cOut.data[l].interval_start.day
       /\ cOut.data[k].standingCharge > 0
       /\ cOut.data[k].standingCharge = cOut.data[l].standingCharge

\* the agreements of the meter points the call's meter matches, in order
MatchingAgreements ==
  Flatten([p \in 1..Len(cArgs.account) |->
    LET mps == IF cArgs.meterPoint.type = "electricity"
               THEN cArgs.account[p].electricity_meter_points
               ELSE cArgs.account[p].gas_meter_points
    IN Flatten([m \in 1..Len(mps) |->
         IF (cArgs.meterPoint.type = "electricity"
               /\ mps[m].mpan = cArgs.meterPoint.mpan)
            \/ (cArgs.meterPoint.type = "gas"
               /\ mps[m].mprn = cArgs.meterPoint.mprn)
         THEN mps[m].agreements ELSE <<>>])])

\* validFrom <= end AND (validTo is open-ended OR validTo >= start)
Selected(a) ==
  /\ GetTime(a.valid_from) <= cArgs.endDate
  /\ (a.valid_to = Null \/ GetTime(a.valid_to) >= cArgs.startDate)

\* C6: the collected tariff codes are those of the matching meter's
\* agreements with validFrom <= end and (validTo open-ended or >= start), in
\* discovery order with duplicates kept, and one fetch is made per collected
\* code: without a rejected fetch every answered entry is in the rate list.
C6_AgreementSelection ==
  op = "lookup" =>
    /\ LET sel == SelectSeq(MatchingAgreements, Selected)
       IN cOut.tariffCodes = [i \in 1..Len(sel) |-> sel[i].tariff_code]
    /\ Len(cArgs.resp) = Len(cOut.tariffCodes)
    /\ ~cOut.threw =>
         /\ Len(cOut.rates) = Len(Fetched)
         /\ \A i \in 1..Len(Fetched) :
              \E j \in 1..Len(cOut.rates) : cOut.rates[j] = Fetched[i]

\* the same code was collected twice, once for an agreement ending exactly
\* at the window start, another agreement was left out, and both fetches
\* answered
C6_Witness ==
  /\ op = "lookup"
  /\ cOut.tariffCodes = <<"A", "A">>
  /\ Len(cOut.rates) = 2
  /\ \E i \in 1..Len(MatchingAgreements) :
       /\ MatchingAgreements[i].valid_to # Null
       /\ GetTime(MatchingAgreements[i].valid_to) = cArgs.startDate
  /\ cArgs.meterPoint = ElecMeter("M1")

\* no fetch was rejected and every fetch answered nothing
NoRatesResolved ==
  \A i \in 1..Len(cArgs.resp) :
     cArgs.resp[i].kind # "reject" /\ GetTariffRates(cArgs.resp[i]) = <<>>

\* the consumption of the call summed over the slots of day d
ConsumedOn(d) ==
  SumSet({i \in 1..Len(cArgs.consumptionData) :
            cArgs.consumptionData[i].interval_start.day = d},
         [i \in 1..Len(cArgs.consumptionData) |->
            cArgs.consumptionData[i].consumption])

CData == cmpArgs.data
CYears == Range(cmpArgs.years)
CValue == [i \in 1..Len(CData) |-> CData[i].value]

\* local instant of the i-th reading (only used for parseable labels)
CTime(i) == GetTime(CData[i].date)

\* indexes of the readings whose timestamp falls in year y
InYear(y) ==
  {i \in 1..Len(CData) :
     CTime(i) # NaN /\ GetFullYear(CTime(i), cmpArgs.tz) = y}
Requested == UNION {InYear(y) : y \in CYears}

\* month and day of a reading, and those a "MM-DD" key spells
MonthDayOf(i) ==
  <<GetMonth(CTime(i), cmpArgs.tz) + 1, GetDate(CTime(i), cmpArgs.tz)>>
Spelled(key) == <<key[1] * 10 + key[2], key[3] * 10 + key[4]>>
Before(a, b) == a[1] < b[1] \/ (a[1] = b[1] /\ a[2] < b[2])

\* C17: for a non-empty list of years the axis of compareYears is the
\* sorted union of the MM-DD keys seen in a requested year, one point per
\* distinct key; every point has a field for exactly the requested years, 0
\* where that year has no reading for the key.
C17_YearAlignment ==
  (op = "compareYears" /\ cmpArgs.years # <<>>) =>
    /\ {Spelled(cmpOut[k].date) : k \in 1..Len(cmpOut)}
         = {MonthDayOf(i) : i \in Requested}
    /\ Len(cmpOut) = Cardinality({MonthDayOf(i) : i \in Requested})
    /\ \A k, l \in 1..Len(cmpOut) :
         k < l => Before(Spelled(cmpOut[k].date), Spelled(cmpOut[l].date))
    /\ \A k \in 1..Len(cmpOut) :
         /\ DOMAIN cmpOut[k].cells = CYears
         /\ \A y \in CYears :
              (\A i \in InYear(y) : MonthDayOf(i) # Spelled(cmpOut[k].date))
                => cmpOut[k].cells[y] = 0

\* three years were requested, one has no reading at all, and a key seen in
\* one year is reported as 0 for another year that has readings
C17_Witness ==
  /\ op = "compareYears"
  /\ Len(cmpArgs.years) = 3
  /\ \E y \in CYears : InYear(y) = {}
  /\ Len(cmpOut) = 2
  /\ \E k \in 1..Len(cmpOut), y, z \in CYears :
       /\ InYear(y) # {}
       /\ InYear(z) # {}
       /\ cmpOut[k].cells[y] > 0
       /\ cmpOut[k].cells[z] = 0

\* readings of month cmpArgs.month in year y on day-of-month d
InBucket(y, d) ==
  {i \in InYear(y) :
     /\ GetMonth(CTime(i), cmpArgs.tz) + 1 = cmpArgs.month
     /\ GetDate(CTime(i), cmpArgs.tz) = d}
SeenDays ==
  {GetDate(CTime(i), cmpArgs.tz) :
     i \in {j \in Requested : GetMonth(CTime(j), cmpArgs.tz) + 1 = cmpArgs.month}}

\* the axis is the ascending union of the days seen, as strings, and each
\* cell is F(sum of the bucket)
MonthBuckets(F(_)) ==
  /\ {NumberOf(cmpOut[k].date) : k \in 1..Len(cmpOut)} = SeenDays
  /\ \A k \in 1..Len(cmpOut) : cmpOut[k].date = Digits(NumberOf(cmpOut[k].date))
  /\ \A k, l \in 1..Len(cmpOut) :
       k < l => NumberOf(cmpOut[k].date) < NumberOf(cmpOut[l].date)
  /\ \A k \in 1..Len(cmpOut) :
       /\ DOMAIN cmpOut[k].cells = CYears
       /\ \A y \in CYears :
            cmpOut[k].cells[y]
              = F(SumSet(InBucket(y, NumberOf(cmpOut[k].date)), CValue))

\* C18 as stated: only readings of the month in a requested year are
\* bucketed, each cell is the sum of its (year, day-of-month) bucket, and the
\* axis is the numerically ascending union of the days seen, as strings.
C18_MonthBucketsExact ==
  (op = "compareMonths" /\ cmpArgs.years # <<>>) => MonthBuckets(Exactly)

\* C18 (amended): only readings of the month in a requested year are
\* bucketed, each cell is the sum of its (year, day-of-month) bucket rounded
\* to 2 decimals, and the axis is the numerically ascending union of the
\* days seen, as strings.
C18_MonthBuckets ==
  (op = "compareMonths" /\ cmpArgs.years # <<>>) => MonthBuckets(Round2)

\* a reading of the month was bucketed while a reading of a requested year
\* in another month was left out
C18_Witness ==
  /\ op = "compareMonths"
  /\ Len(cmpOut) = 1
  /\ \E y \in CYears : cmpOut[1].cells[y] > 0
  /\ \E i \in Requested : GetMonth(CTime(i), cmpArgs.tz) + 1 # cmpArgs.month

\* every requested year, and no other, has a total: F(sum of the values of
\* the readings whose timestamp falls in it)
YearSums(F(_)) ==
  /\ DOMAIN cmpOut = CYears
  /\ \A y \in CYears : cmpOut[y] = F(SumSet(InYear(y), CValue))

\* C19 as stated: the total of every requested year is the sum of the
\* values of the entries of that year, 0 without entries; exactly the
\* requested years have a key and other years' entries count nowhere.
C19_YearTotalsExact ==
  op = "yearTotals" => YearSums(Exactly)

\* C19 (amended): the total of every requested year is the sum of the
\* values of the entries of that year rounded to 2 decimals, 0 without
\* entries; exactly the requested years have a key and other years' entries
\* count nowhere.
C19_YearTotals ==
  op = "yearTotals" => YearSums(Round2)

\* one requested year has entries, another has none, and an entry lies in a
\* year that was not requested
C19_Witness ==
  /\ op = "yearTotals"
  /\ \E y, z \in CYears : cmpOut[y] > 0 /\ InYear(z) = {} /\ cmpOut[z] = 0
  /\ \E i \in 1..Len(CData) : CTime(i) # NaN /\ i \notin Requested

\* the requested year preceding y
PrevYear(y) == CHOOSE x \in CYears : x < y /\ \A z \in CYears : z < y => z <= x
Earliest == CHOOSE x \in CYears : \A z \in CYears : x <= z

\* C20: the earliest requested year has change null; a later year whose
\* preceding requested year has total 0 has change null; any other year has
\* ((total - previous) / previous) * 100 rounded to 1 decimal, with the sign
\* of the difference; totals 100 then 120 give 20.0.
C20_PercentageChanges ==
  op = "changes" =>
    /\ DOMAIN cmpOut = CYears
    /\ \A y \in CYears :
         IF y = Earliest THEN cmpOut[y].isNull
         ELSE LET cur == cmpArgs.totals[y]
                  prev == cmpArgs.totals[PrevYear(y)]
              IN IF prev = 0 THEN cmpOut[y].isNull
                 ELSE /\ ~cmpOut[y].isNull
                      /\ Abs(2 * (cmpOut[y].tenths * prev - (cur - prev) * 1000))
                           <= prev
                      /\ cur > prev => cmpOut[y].tenths >= 0
                      /\ cur < prev => cmpOut[y].tenths <= 0
                      /\ (prev = 100000 /\ cur = 120000) => cmpOut[y].tenths = 200

\* the years were given out of order; the year after a zero total got null
\* and totals 100 then 120 gave 20.0
C20_Witness ==
  /\ op = "changes"
  /\ Len(cmpArgs.years) = 3
  /\ cmpArgs.years[1] > cmpArgs.years[2]
  /\ \E y \in CYears : y # Earliest /\ cmpOut[y].isNull
  /\ \E y \in CYears : ~cmpOut[y].isNull /\ cmpOut[y].tenths = 200

\* ======================================================================
\* Properties of the tariff summary (SpecTariff)
\* ======================================================================
\* a summary was returned
TariffReturned == op = "tariffInfo" /\ ~tOut.threw /\ ~tOut.isNull

FetchedRates == tArgs.rateResp.results
FetchedValue == [i \in 1..Len(FetchedRates) |-> FetchedRates[i].value_inc_vat]
NightIdx ==
  {i \in 1..Len(FetchedRates) :
     GetHours(FetchedRates[i].valid_from, tArgs.tz) \in 0..4}
DayIdx == (1..Len(FetchedRates)) \ NightIdx
MinNight == MinOf({FetchedValue[i] : i \in NightIdx})

\* the fraction m is the mean of the fetched values with index in S
IsMeanOf(m, S) == m.sum * Cardinality(S) = SumSet(S, FetchedValue) * m.count

\* min(night) < 0.8 * mean(day)
SignificantlyCheaper ==
  10 * MinNight * Cardinality(DayIdx) < 8 * SumSet(DayIdx, FetchedValue)

InForce ==
  {a \in UNION {UNION {Range(mp.agreements) :
                         mp \in {q \in Range(PointsOfType(tArgs.accountDetails[p],
                                                         tArgs.meterPoint.type)) :
                                   SameMeter(q, tArgs.meterPoint)}} :
                  p \in 1..Len(tArgs.accountDetails)} :
     /\ GetTime(a.valid_from) <= tArgs.now
     /\ (a.valid_to.kind = "null" \/ GetTime(a.valid_to) > tArgs.now)}

\* C22: getCurrentTariffInfo never lets an error out, and it returns null
\* whenever the meter has no agreement in force, the rate list is empty or a
\* step of the lookup throws.
C22_NullNeverThrows ==
  op = "tariffInfo" =>
    /\ ~tOut.threw
    /\ (\/ InForce = {}
        \/ Len(FetchedRates) = 0
        \/ tArgs.rateResp.kind = "reject"
        \/ tArgs.scResp.kind = "reject") => tOut.isNull

\* a meter with an agreement in force whose rate fetch rejected
C22_Witness ==
  /\ op = "tariffInfo"
  /\ InForce # {}
  /\ tArgs.rateResp.kind = "reject"
  /\ tOut.isNull
  /\ ~tOut.threw

\* ======================================================================
\* Properties of repeated and related filter calls (SpecCsv)
\* ======================================================================
\* C23: filterDataByTimeRange returns freshly constructed values: the array
\* it returns is not the caller's array and no element of it is one of the
\* caller's elements.
C23_FreshResults ==
  (op = "filter" /\ ~fOut.threw) =>
    /\ fRefs.array # "data"
    /\ \A i \in 1..Len(fRefs.elems) : fRefs.elems[i] = 0

\* C24: two filterDataByTimeRange calls with equal series, window and
\* selected date return equal results, whatever the instant of each call.
C24_SameArgsSameResult ==
  (/\ op = "filterAgain"
   /\ fArgs.timeRange = fPrev.args.timeRange
   /\ fArgs.selectedDate = fPrev.args.selectedDate) => fOut = fPrev.out

\* ======================================================================
\* Properties of the window selector (SpecCompare)
\* ======================================================================
\* the timestamps of the measured series that parse
SpanTimes ==
  {GetTime(cmpArgs.data[i].date) : i \in 1..Len(cmpArgs.data)} \ {NaN}
\* latest minus earliest timestamp, in slots
SpanSlots ==
  IF SpanTimes = {} THEN 0
  ELSE (CHOOSE x \in SpanTimes : \A y \in SpanTimes : x >= y) - MinOf(SpanTimes)
Offered(value) == \E i \in 1..Len(cmpOut) : cmpOut[i].value = value

\* C25: a window is offered if and only if the span of the series, latest
\* minus earliest timestamp, is at least the window's minimum number of days
\* (daily 1, 7d 7, 30d 30, 90d 90, year 365, all 366).
C25_OfferedIffSpan ==
  op = "timeRangeOptions" =>
    \A i \in 1..Len(AllTimeRangeOptions) :
      Offered(AllTimeRangeOptions[i].value)
        <=> SpanSlots >= AllTimeRangeOptions[i].minDays * SlotsPerDay

\* ======================================================================
\* Properties of the costing under several agreements (SpecCost)
\* ======================================================================
\* indexes of the meter's agreements in force at instant t: valid_from <= t
\* and t before valid_to, an absent valid_to being unbounded
AgreementsAt(t) ==
  {i \in 1..Len(MatchingAgreements) :
     /\ GetTime(MatchingAgreements[i].valid_from) <= t
     /\ (MatchingAgreements[i].valid_to = Null
         \/ t < GetTime(MatchingAgreements[i].valid_to))}

\* C26: an interval whose start instant is covered by exactly one agreement
\* of the meter is given a rate published for that agreement's tariff code.
\* An interval that no fetched entry covers is given the rate 0 and is left
\* aside.
C26_RateOfCoveringAgreement ==
  CostReturned =>
    \A k \in 1..Len(cOut.data) :
      \A i \in AgreementsAt(StartOf(k)) :
        (AgreementsAt(StartOf(k)) = {i} /\ cOut.data[k].rate # 0)
          => cOut.data[k].rate = RateValueOf(MatchingAgreements[i].tariff_code)

\* the daily charges published for the tariff codes of the agreements that
\* overlap the billing window
WindowCharges ==
  {StandingChargeOf(a.tariff_code) :
     a \in {b \in Range(MatchingAgreements) : Selected(b)}}

\* C30: a non-zero standing charge applied to an interval is the share of
\* the daily charge of a tariff code whose agreement overlaps the billing
\* window [startDate, endDate].
C30_ChargeOfWindowAgreement ==
  CostReturned =>
    \A k \in 1..Len(cOut.data) :
      cOut.data[k].standingCharge # 0
        => \E c \in WindowCharges :
             cOut.data[k].standingCharge = StandingChargePer30Min(c)

\* ======================================================================
\* Properties of the session (SpecSession)
\* ======================================================================
\* C27: in every reachable state a non-null total cost was stored by the
\* same fetch completion that stored the displayed series.
C27_CostFromDisplayedFetch ==
  totalCost # NoCost => dataFrom = costFrom

\* ======================================================================
\* Properties relating the views of one series (SpecCsv)
\* ======================================================================
\* the outcome of the 'all' window on the stored series
AllView == FilterDataByTimeRange(chartData, "all", Undefined, NoArgs.now, NoArgs.tz)
\* the values of the 'all' entries labelled d
AllValues(d) == {AllView.out[j].value : j \in {i \in 1..Len(AllView.out) : AllView.out[i].date = d}}
OutValue == [k \in 1..Len(fOut.out) |-> fOut.out[k].value]

\* C28: the values returned by the daily view of date D add up to the value
\* of the 'all' entry labelled D, in every runtime timezone; where 'all' has
\* no entry labelled D the daily view returns nothing.  Series on which the
\* 'all' call throws are left aside.
C28_DailyMatchesAllBucket ==
  (/\ op = "filter"
   /\ fArgs.timeRange = "daily"
   /\ Truthy(fArgs.selectedDate)
   /\ ~AllView.threw) =>
    IF AllValues(fArgs.selectedDate.core) = {}
    THEN fOut.out = <<>>
    ELSE AllValues(fArgs.selectedDate.core) = {SumSeq(OutValue)}

\* C29: every entry (D, v) returned for the windows 7d, 30d, 90d and year
\* carries the value of day D in the 'all' output of the same series,
\* including the day on which the cutoff instant falls.  Series on which the
\* 'all' call throws are left aside.
C29_NoPartialDay ==
  (Windowed /\ ~fOut.threw /\ ~AllView.threw) =>
    \A k \in 1..Len(fOut.out) :
      AllValues(fOut.out[k].date) = {fOut.out[k].value}

====
